---- MODULE Spec2Model ----
(***************************************************************************)
(* EventDiff: schema-governance gate.  Model of the policy-aware script    *)
(* (flatten / enumDiff / diff / severity policy / run loop).               *)
(*                                                                         *)
(* JavaScript strings that are ordered, concatenated or compared by the    *)
(* program (field keys, dotted paths, type names) are sequences of UTF-16  *)
(* code units.  Rule keys, severities and team names are only ever looked  *)
(* up or compared for equality and are TLA+ strings.                       *)
(***************************************************************************)
EXTENDS Integers, Sequences, FiniteSets, TLC

VARIABLES
    pc,                         \* position of the script / of the harness
    POLICY_DEFAULT,             \* rule key -> configured value
    POLICY_OVERRIDES_BY_OWNER,  \* team -> (rule key -> configured value) | NotAnObject
    OWNERS,                     \* event name -> list of teams
    changed,                    \* list of changed files
    idx,                        \* index of the next file of the run loop
    contents,                   \* file -> [old, new] content at base / head
    reports,                    \* list of FileReports
    anyBlock,                   \* run-level block flag
    final,                      \* the RunReport summary, once computed
    exitCode,                   \* process exit code, once exited
    arg,                        \* input of the function under test
    ret                         \* its result

vars == <<pc, POLICY_DEFAULT, POLICY_OVERRIDES_BY_OWNER, OWNERS, changed, idx,
          contents, reports, anyBlock, final, exitCode, arg, ret>>


----------------------------------------------------------------------------
(* Generic helpers *)

Range(s) == {s[i] : i \in 1..Len(s)}

SeqsUpTo(S, n) == UNION {[1..k -> S] : k \in 0..n}

PartialMaps(keys, vals, n) ==
    UNION {[d -> vals] : d \in {s \in SUBSET keys : Cardinality(s) <= n}}

\* { ...a, ...b }
Spread(a, b) ==
    [k \in (DOMAIN a) \cup (DOMAIN b) |-> IF k \in DOMAIN b THEN b[k] ELSE a[k]]

----------------------------------------------------------------------------
(* Severity policy *)

Sev == {"pass", "warn", "block"}

RuleKeys == {"FIELD_REMOVED_REQUIRED", "FIELD_REMOVED_OPTIONAL",
             "FIELD_ADDED_REQUIRED", "FIELD_ADDED_OPTIONAL",
             "REQUIRED_BECOMES_REQUIRED", "REQUIRED_BECOMES_OPTIONAL",
             "TYPE_CHANGED", "ENUM_VALUE_REMOVED", "ENUM_VALUE_ADDED",
             "FILE_REMOVED", "FILE_ADDED", "INVALID_JSON"}

DEFAULT_POLICY ==
    [k \in RuleKeys |->
        CASE k = "FIELD_REMOVED_REQUIRED"    -> "block"
          [] k = "FIELD_REMOVED_OPTIONAL"    -> "warn"
          [] k = "FIELD_ADDED_REQUIRED"      -> "block"
          [] k = "FIELD_ADDED_OPTIONAL"      -> "pass"
          [] k = "REQUIRED_BECOMES_REQUIRED" -> "block"
          [] k = "REQUIRED_BECOMES_OPTIONAL" -> "warn"
          [] k = "TYPE_CHANGED"              -> "block"
          [] k = "ENUM_VALUE_REMOVED"        -> "block"
          [] k = "ENUM_VALUE_ADDED"          -> "pass"
          [] k = "FILE_REMOVED"              -> "block"
          [] k = "FILE_ADDED"                -> "pass"
          [] k = "INVALID_JSON"              -> "block"]

SEV_RANK == [s \in Sev |-> CASE s = "pass" -> 0 [] s = "warn" -> 1 [] s = "block" -> 2]

\* SEV_RANK[x] ?? 1
RankOr1(x) == IF x \in DOMAIN SEV_RANK THEN SEV_RANK[x] ELSE 1

\* the override always replaces the running severity
maxSev_LastWins(a, b) == b

maxSev(a, b) == IF RankOr1(a) >= RankOr1(b) THEN a ELSE b

\* JavaScript truthiness of a configured value: the empty string is falsy
Truthy(v) == v # ""

\* A team's entry of overrides_by_owner: an object (a partial map of rule keys)
\* or some other JSON value
TeamObject(m) == [isObject |-> TRUE, map |-> m]
NotAnObject == [isObject |-> FALSE, map |-> << >>]

RECURSIVE ApplyOverrides(_, _, _, _)
ApplyOverrides(s, key, ownerTeams, overrides) ==
    IF ownerTeams = << >> THEN s
    ELSE LET team == Head(ownerTeams)
             teamPolicy == IF team \in DOMAIN overrides THEN overrides[team] ELSE NotAnObject
             s2 == IF teamPolicy.isObject /\ key \in DOMAIN teamPolicy.map
                      /\ Truthy(teamPolicy.map[key])
                   THEN maxSev(s, teamPolicy.map[key])
                   ELSE s
         IN  ApplyOverrides(s2, key, Tail(ownerTeams), overrides)

\* POLICY_DEFAULT[key] || "warn"
DefaultFor(key, policyDefault) ==
    IF key \in DOMAIN policyDefault /\ Truthy(policyDefault[key])
    THEN policyDefault[key] ELSE "warn"

sevForOwnerIn(key, ownerTeams, policyDefault, overrides) ==
    ApplyOverrides(DefaultFor(key, policyDefault), key, ownerTeams, overrides)

sevForOwner(key, ownerTeams) ==
    sevForOwnerIn(key, ownerTeams, POLICY_DEFAULT, POLICY_OVERRIDES_BY_OWNER)

(* The configuration document eventdiff.config.json, as parsed:            *)
(*   ok            the file exists and parses                              *)
(*   hasPolicy     it has an object-valued "policy" member                 *)
(*   hasDefault    policy.default is an object; default is that object     *)
(*   flat          the rule keys written directly under "policy"           *)
(*   hasOverrides  policy.overrides_by_owner is an object; overrides is it *)
NoConfig ==
    [ok |-> FALSE, hasPolicy |-> FALSE, hasDefault |-> FALSE, default |-> << >>,
     flat |-> << >>, hasOverrides |-> FALSE, overrides |-> << >>]

LoadedDefault(cfg) ==
    IF ~cfg.ok \/ ~cfg.hasPolicy THEN DEFAULT_POLICY
    ELSE IF cfg.hasDefault
         THEN Spread(DEFAULT_POLICY, cfg.default)
         ELSE Spread(DEFAULT_POLICY, cfg.flat)

LoadedOverrides(cfg) ==
    IF cfg.ok /\ cfg.hasPolicy /\ cfg.hasOverrides THEN cfg.overrides ELSE << >>

----------------------------------------------------------------------------
(* JavaScript strings and Array.prototype.sort() *)

\* code units
Dot  == <<46>>
Pipe == <<124>>
sA  == <<97>>
sB  == <<98>>
sAdotB == <<97, 46, 98>>
sOne == <<49>>
sEmpty == << >>
sNull    == <<110, 117, 108, 108>>
sNumber  == <<110, 117, 109, 98, 101, 114>>
sString  == <<115, 116, 114, 105, 110, 103>>
sUnknown == <<117, 110, 107, 110, 111, 119, 110>>

\* a < b by UTF-16 code units, a proper prefix first
RECURSIVE StrLess(_, _)
StrLess(a, b) ==
    IF b = << >> THEN FALSE
    ELSE IF a = << >> THEN TRUE
    ELSE IF Head(a) # Head(b) THEN Head(a) < Head(b)
    ELSE StrLess(Tail(a), Tail(b))

\* JSON scalars that occur in enum and required arrays
NumV(n) == [t |-> "num", n |-> n, s |-> << >>]
StrV(s) == [t |-> "str", n |-> 0, s |-> s]

RECURSIVE Digits(_)
Digits(n) == IF n < 10 THEN <<48 + n>> ELSE Digits(n \div 10) \o <<48 + (n % 10)>>

\* String(v)
StringOf(v) == IF v.t = "num" THEN Digits(v.n) ELSE v.s

\* insert the keyed element x = <<key, value>> into the sorted list s, behind
\* every element whose key is not greater
RECURSIVE InsertSorted(_, _)
InsertSorted(x, s) ==
    IF s = << >> THEN <<x>>
    ELSE IF StrLess(x[1], Head(s)[1]) THEN <<x>> \o s
    ELSE <<Head(s)>> \o InsertSorted(x, Tail(s))

RECURSIVE SortKeyed(_)
SortKeyed(arr) ==
    IF arr = << >> THEN << >>
    ELSE InsertSorted(arr[Len(arr)], SortKeyed(SubSeq(arr, 1, Len(arr) - 1)))

Unkeyed(sorted) == [i \in 1..Len(sorted) |-> sorted[i][2]]

\* arr.sort() without a comparator: stable, ascending by String(element)
SortStrings(arr) == Unkeyed(SortKeyed([i \in 1..Len(arr) |-> <<arr[i], arr[i]>>]))
SortValues(arr) == Unkeyed(SortKeyed([i \in 1..Len(arr) |-> <<StringOf(arr[i]), arr[i]>>]))

\* Array.from(new Set(arr)): first occurrences, in order
RECURSIVE Dedupe(_)
Dedupe(arr) ==
    IF arr = << >> THEN << >>
    ELSE LET init == Dedupe(SubSeq(arr, 1, Len(arr) - 1))
             x == arr[Len(arr)]
         IN  IF x \in Range(init) THEN init ELSE Append(init, x)

\* arr.join(sep)
RECURSIVE Join(_, _)
Join(arr, sep) ==
    IF arr = << >> THEN << >>
    ELSE IF Len(arr) = 1 THEN arr[1]
    ELSE arr[1] \o sep \o Join(Tail(arr), sep)

\* some enumeration of a finite set
RECURSIVE SetToSeq(_)
SetToSeq(S) ==
    IF S = {} THEN << >>
    ELSE LET x == CHOOSE y \in S : TRUE IN <<x>> \o SetToSeq(S \ {x})

----------------------------------------------------------------------------
(* Schema nodes, as parsed from JSON                                       *)
(*   isNull      the value is null (or another falsy value)                *)
(*   type        [kind |-> "array", names] | [kind |-> "string", name]     *)
(*               | [kind |-> "other"]                                      *)
(*   required    [isArray, values]   values: JSON scalars                  *)
(*   properties  [isObject, entries] entries: list of <<key, node>>        *)
(*   enum        [isArray, values]                                         *)

TypeArray(names) == [kind |-> "array", name |-> << >>, names |-> names]
TypeString(name) == [kind |-> "string", name |-> name, names |-> << >>]
TypeOther        == [kind |-> "other", name |-> << >>, names |-> << >>]

ArrayOf(values) == [isArray |-> TRUE, values |-> values]
NotAnArray      == [isArray |-> FALSE, values |-> << >>]

ObjectOf(entries) == [isObject |-> TRUE, entries |-> entries]
NoProperties      == [isObject |-> FALSE, entries |-> << >>]

NullNode ==
    [isNull |-> TRUE, type |-> TypeOther, required |-> NotAnArray,
     properties |-> NoProperties, enum |-> NotAnArray]

Node(type, required, properties, enum) ==
    [isNull |-> FALSE, type |-> type, required |-> required,
     properties |-> properties, enum |-> enum]

normalizeType(t) ==
    IF t.kind = "array" THEN
        LET set == Dedupe(t.names)
            nullable == sNull \in Range(set)
            NotNull(x) == x # sNull
            rest == SortStrings(SelectSeq(set, NotNull))
        IN  [type |-> IF Len(rest) = 1 THEN rest[1]
                      ELSE IF Len(rest) > 0 THEN Join(rest, Pipe)
                      ELSE sUnknown,
             nullable |-> nullable]
    ELSE IF t.kind = "string" THEN [type |-> t.name, nullable |-> FALSE]
    ELSE [type |-> sUnknown, nullable |-> FALSE]

\* path ? `${path}.${k}` : k
ChildPath(path, k) == IF path # << >> THEN path \o Dot \o k ELSE k

\* fields.set(path, d)
MapSet(fields, path, d) ==
    [p \in (DOMAIN fields) \cup {path} |-> IF p = path THEN d ELSE fields[p]]

\* the set starts as a copy of the one the node itself was checked against
childReqOf_Inherits(path, required, requiredNames) ==
    requiredNames \cup {ChildPath(path, r.s) : r \in {v \in Range(required) : v.t = "str"}}

\* childReq: a fresh set of the paths of the children that `required` names
\* (requiredNames, the set of the level above, has no part in it)
childReqOf(path, required, requiredNames) ==
    {ChildPath(path, r.s) : r \in {v \in Range(required) : v.t = "str"}}

RECURSIVE walk(_, _, _, _)
RECURSIVE walkEntries(_, _, _, _)

walk(fields, node, path, requiredNames) ==
    IF node.isNull THEN fields
    ELSE
        LET t == normalizeType(node.type)
            req == path \in requiredNames
            fields1 ==
                IF path # << >>
                THEN MapSet(fields, path,
                            [path |-> path, type |-> t.type, nullable |-> t.nullable,
                             required |-> req,
                             enum |-> IF node.enum.isArray THEN node.enum ELSE NotAnArray])
                ELSE fields
            required == IF node.required.isArray THEN node.required.values ELSE << >>
        IN  IF node.properties.isObject
            THEN walkEntries(fields1, node.properties.entries, path,
                             childReqOf(path, required, requiredNames))
            ELSE fields1

walkEntries(fields, entries, path, childReq) ==
    IF entries = << >> THEN fields
    ELSE walkEntries(walk(fields, Head(entries)[2], ChildPath(path, Head(entries)[1]), childReq),
                     Tail(entries), path, childReq)

flatten(schema) == walk(<< >>, schema, << >>, {})

\* added collects the values of new that ARE in old
enumDiff_AddedInverted(oldEnum, newEnum) ==
    LET a == Dedupe(IF oldEnum.isArray THEN oldEnum.values ELSE << >>)
        b == Dedupe(IF newEnum.isArray THEN newEnum.values ELSE << >>)
        NotInB(v) == v \notin Range(b)
        InA(v) == v \in Range(a)
    IN  [removed |-> SortValues(SelectSeq(a, NotInB)),
         added   |-> SortValues(SelectSeq(b, InA))]

enumDiff(oldEnum, newEnum) ==
    LET a == Dedupe(IF oldEnum.isArray THEN oldEnum.values ELSE << >>)
        b == Dedupe(IF newEnum.isArray THEN newEnum.values ELSE << >>)
        NotInB(v) == v \notin Range(b)
        NotInA(v) == v \notin Range(a)
    IN  [removed |-> SortValues(SelectSeq(a, NotInB)),
         added   |-> SortValues(SelectSeq(b, NotInA))]

----------------------------------------------------------------------------
(* diff: change records are [severity, kind, path]; the message text, which *)
(* no decision depends on, is left out.                                     *)

Change(severity, kind, path) == [severity |-> severity, kind |-> kind, path |-> path]

CountSeverity(changes, sev) == Len(SelectSeq(changes, LAMBDA c : c.severity = sev))

Summarize(changes) ==
    LET blocks == CountSeverity(changes, "block")
        warns  == CountSeverity(changes, "warn")
        passes == CountSeverity(changes, "pass")
    IN  [decision |-> IF blocks > 0 THEN "FAIL" ELSE "PASS",
         blocks |-> blocks, warns |-> warns, passes |-> passes]

\* both removals resolved with the rule of the other
RemovedRuleKey_Swapped(a) ==
    IF a.required THEN "FIELD_REMOVED_OPTIONAL" ELSE "FIELD_REMOVED_REQUIRED"

RemovedRuleKey(a) ==
    IF a.required THEN "FIELD_REMOVED_REQUIRED" ELSE "FIELD_REMOVED_OPTIONAL"

AddedRuleKey(b) ==
    IF b.required THEN "FIELD_ADDED_REQUIRED" ELSE "FIELD_ADDED_OPTIONAL"

\* the nullable flags are not compared
TypeDiffers_IgnoresNullable(a, b) == a.type # b.type

\* a.type !== b.type || a.nullable !== b.nullable
TypeDiffers(a, b) == a.type # b.type \/ a.nullable # b.nullable

\* the body of the loop over the sorted paths
ChangesAt(A, B, path, ownerTeams) ==
    IF path \in DOMAIN A /\ path \notin DOMAIN B THEN
        <<Change(sevForOwner(RemovedRuleKey(A[path]), ownerTeams), "FIELD_REMOVED", path)>>
    ELSE IF path \notin DOMAIN A /\ path \in DOMAIN B THEN
        <<Change(sevForOwner(AddedRuleKey(B[path]), ownerTeams), "FIELD_ADDED", path)>>
    ELSE IF path \notin DOMAIN A \/ path \notin DOMAIN B THEN << >>
    ELSE
        LET a == A[path]
            b == B[path]
            ed == enumDiff(a.enum, b.enum)
            becomesRequired == ~a.required /\ b.required
        IN  (IF a.required # b.required
             THEN <<Change(IF becomesRequired
                           THEN sevForOwner("REQUIRED_BECOMES_REQUIRED", ownerTeams)
                           ELSE sevForOwner("REQUIRED_BECOMES_OPTIONAL", ownerTeams),
                           IF becomesRequired THEN "REQUIRED_BECOMES_REQUIRED"
                           ELSE "REQUIRED_BECOMES_OPTIONAL", path)>>
             ELSE << >>)
         \o (IF TypeDiffers(a, b)
             THEN <<Change(sevForOwner("TYPE_CHANGED", ownerTeams), "TYPE_CHANGED", path)>>
             ELSE << >>)
         \o (IF Len(ed.removed) > 0
             THEN <<Change(sevForOwner("ENUM_VALUE_REMOVED", ownerTeams),
                           "ENUM_VALUE_REMOVED", path)>>
             ELSE << >>)
         \o (IF Len(ed.added) > 0
             THEN <<Change(sevForOwner("ENUM_VALUE_ADDED", ownerTeams),
                           "ENUM_VALUE_ADDED", path)>>
             ELSE << >>)

RECURSIVE ChangesOver(_, _, _, _)
ChangesOver(paths, A, B, ownerTeams) ==
    IF paths = << >> THEN << >>
    ELSE ChangesAt(A, B, Head(paths), ownerTeams) \o ChangesOver(Tail(paths), A, B, ownerTeams)

\* the paths in the order of the set, not sorted
SortedPaths_Unsorted(A, B) == SetToSeq((DOMAIN A) \cup (DOMAIN B))

\* Array.from(paths).sort()
SortedPaths(A, B) == SortStrings(SetToSeq((DOMAIN A) \cup (DOMAIN B)))

diff(oldSchema, newSchema, ownerTeams) ==
    LET A == flatten(oldSchema)
        B == flatten(newSchema)
        changes == ChangesOver(SortedPaths(A, B), A, B, ownerTeams)
    IN  [summary |-> Summarize(changes), changes |-> changes]

----------------------------------------------------------------------------
(* Content retrieval and parsing                                           *)
(* A content is what `git show ref:path` gives: ok = FALSE when the command *)
(* fails (content null), else a text that is either valid JSON with the    *)
(* given value or not.                                                     *)

Missing        == [ok |-> FALSE, valid |-> FALSE, value |-> NullNode]
BadText        == [ok |-> TRUE,  valid |-> FALSE, value |-> NullNode]
TextOf(schema) == [ok |-> TRUE,  valid |-> TRUE,  value |-> schema]

\* JSON.parse(null) parses the text "null"
safeJsonParse(content) ==
    IF ~content.ok THEN [ok |-> TRUE, value |-> NullNode]
    ELSE IF content.valid THEN [ok |-> TRUE, value |-> content.value]
    ELSE [ok |-> FALSE, value |-> NullNode]

----------------------------------------------------------------------------
(* Bounds and input sets *)

MaxFiles   == 2     \* changed files of a run
MaxTeams   == 2     \* owning teams listed for one event
MaxFields  == 3     \* nodes below the root of a generated schema tree
MaxTypeLen == 3     \* names in a type array
MaxEnumLen == 2     \* values in an enum list given to enumDiff

\* files are numbered; file i is schemas/e<i>.json
Files == 1..MaxFiles
eventNameFromFile(file) == file

Teams == {"t1", "t2"}
OwnerLists == SeqsUpTo(Teams, MaxTeams)

\* values a configuration file may give a rule: the severities, a string that
\* is no severity, and the empty string
CfgValues == Sev \cup {"error", ""}

\* Schema trees with at most n nodes below the root.  g gives the node
\* attributes: g.leaf a set of <<type, enum>>, g.reqs the required
\* declarations of nodes with properties, g.keys the property keys, g.nulls
\* whether a property may be null.
RECURSIVE Trees(_, _)
RECURSIVE Forests(_, _, _)

Trees(g, n) ==
    {Node(a[1], pr[2], pr[1], a[2]) :
        a \in g.leaf,
        pr \in {<<NoProperties, NotAnArray>>}
               \cup {<<ObjectOf(f), r>> : f \in Forests(g, n, g.keys) \ {<< >>}, r \in g.reqs}}

Forests(g, n, K) ==
    {<< >>} \cup
    UNION {UNION {{<<<<k, c>>>> \o rest :
                      c \in Trees(g, m - 1) \cup (IF g.nulls /\ m = 1 THEN {NullNode} ELSE {}),
                      rest \in Forests(g, n - m, K \ {k})}
                  : m \in 1..n}
           : k \in K}

\* a node without properties, of a <<type, enum>> kind
Leaf(kind) == Node(kind[1], NotAnArray, NoProperties, kind[2])

\* --- inputs of flatten
FlattenGen ==
    [leaf  |-> {<<TypeString(sNumber), NotAnArray>>},
     reqs  |-> {NotAnArray, ArrayOf(<<StrV(sA)>>), ArrayOf(<<StrV(sB), StrV(sAdotB)>>)},
     keys  |-> {sA, sB, sAdotB},
     nulls |-> TRUE]

TypeNames == {sNull, sNumber, sString}

TypeDecls ==
    {TypeOther} \cup {TypeString(n) : n \in TypeNames}
                \cup {TypeArray(names) : names \in SeqsUpTo(TypeNames, MaxTypeLen)}

\* { properties: { k: { type: t } }, required: r }, k one of "a" and "1"
TypeSchemas ==
    {Node(TypeOther, r,
          ObjectOf(<< <<k, Node(t, NotAnArray, NoProperties, NotAnArray)>> >>),
          NotAnArray) :
        t \in TypeDecls, k \in {sA, sOne},
        r \in {NotAnArray, ArrayOf(<<StrV(sA)>>), ArrayOf(<<NumV(1)>>)}}

\* { properties: { "": { properties: { a: {} }, required: r2 }, a: {} }, required: r1 }
EmptyKeySchemas ==
    {Node(TypeOther, r1,
          ObjectOf(<< <<sEmpty, Node(TypeOther, r2,
                                     ObjectOf(<< <<sA, Leaf(<<TypeString(sString), NotAnArray>>)>> >>),
                                     NotAnArray)>>,
                      <<sA, Leaf(<<TypeString(sNumber), NotAnArray>>)>> >>),
          NotAnArray) :
        r1, r2 \in {NotAnArray, ArrayOf(<<StrV(sA)>>), ArrayOf(<<StrV(sEmpty)>>)}}

FlattenInputs ==
    {NullNode} \cup Trees(FlattenGen, MaxFields) \cup TypeSchemas \cup EmptyKeySchemas

\* --- inputs of diff
LeafKindsA ==
    {<<TypeString(sNumber), NotAnArray>>,
     <<TypeString(sString), NotAnArray>>,
     <<TypeArray(<<sNull, sNumber>>), NotAnArray>>,
     <<TypeArray(<<sNumber, sNull>>), ArrayOf(<<NumV(3)>>)>>,
     <<TypeString(sNumber), ArrayOf(<<NumV(1)>>)>>,
     <<TypeString(sNumber), ArrayOf(<<NumV(2), NumV(1), NumV(2)>>)>>}

LeafKindsB ==
    {<<TypeString(sNumber), NotAnArray>>,
     <<TypeString(sString), ArrayOf(<<StrV(sA)>>)>>}

\* the property a: absent, a leaf, or an object with the property b
FieldA ==
    {<< >>} \cup {<< <<sA, Leaf(k)>> >> : k \in LeafKindsA}
            \cup {<< <<sA, Node(TypeOther, r, ObjectOf(<< <<sB, Leaf(k)>> >>), NotAnArray)>> >> :
                     k \in LeafKindsB, r \in {NotAnArray, ArrayOf(<<StrV(sB)>>)}}

FieldB == {<< >>} \cup {<< <<sB, Leaf(k)>> >> : k \in LeafKindsB}

DiffSchemas ==
    {Node(TypeOther, r, ObjectOf(fa \o fb), NotAnArray) :
        fa \in FieldA, fb \in FieldB,
        r \in {NotAnArray, ArrayOf(<<StrV(sA)>>), ArrayOf(<<StrV(sB)>>)}}

\* --- configuration documents
FlatConfig(m) ==
    [ok |-> TRUE, hasPolicy |-> TRUE, hasDefault |-> FALSE, default |-> << >>,
     flat |-> m, hasOverrides |-> FALSE, overrides |-> << >>]

DefaultConfig(m, o) ==
    [ok |-> TRUE, hasPolicy |-> TRUE, hasDefault |-> TRUE, default |-> m,
     flat |-> << >>, hasOverrides |-> TRUE, overrides |-> o]

DiffConfigs ==
    {NoConfig,
     FlatConfig("FIELD_ADDED_OPTIONAL" :> "warn" @@ "ENUM_VALUE_ADDED" :> "warn"
                @@ "REQUIRED_BECOMES_OPTIONAL" :> "pass"),
     DefaultConfig("TYPE_CHANGED" :> "warn",
                   "t1" :> TeamObject("ENUM_VALUE_ADDED" :> "block"
                                      @@ "FIELD_REMOVED_OPTIONAL" :> "block"))}

RunConfigs ==
    {NoConfig,
     FlatConfig("FILE_ADDED" :> "block"),
     FlatConfig("FILE_REMOVED" :> "warn"),
     FlatConfig("INVALID_JSON" :> "pass"),
     FlatConfig("TYPE_CHANGED" :> "error"),
     DefaultConfig("TYPE_CHANGED" :> "warn", << >>),
     DefaultConfig(<< >>, "t1" :> TeamObject("FIELD_ADDED_OPTIONAL" :> "block"))}

\* rule keys the resolver is asked for, one of them unrecognized
PolicyKeys == {"TYPE_CHANGED", "FIELD_REMOVED_OPTIONAL", "FILE_ADDED", "UNKNOWN_RULE"}

\* what a configuration file may say about one rule key k for one team
TeamEntries(k) ==
    {NotAnObject, TeamObject(<< >>)} \cup {TeamObject(k :> v) : v \in CfgValues}

PolicyConfigs ==
    {NoConfig, [NoConfig EXCEPT !.ok = TRUE]} \cup
    UNION {UNION {{[ok |-> TRUE, hasPolicy |-> TRUE, hasDefault |-> hd,
                    default |-> IF hd THEN m ELSE << >>,
                    flat |-> IF hd THEN << >> ELSE m,
                    hasOverrides |-> TRUE, overrides |-> o] :
                      hd \in BOOLEAN,
                      m \in {<< >>} \cup {k :> v : v \in CfgValues}}
                  : o \in UNION {[T -> TeamEntries(k)] : T \in SUBSET Teams}}
           : k \in PolicyKeys}

\* --- ownership documents: event name -> list of teams
RunOwnerMaps == {<< >>, [f \in Files |-> <<"t1">>]}
PolicyOwnerMaps == {<< >>} \cup {1 :> l : l \in OwnerLists}

\* OWNERS[eventName] || []
OwnersOf(file) ==
    IF eventNameFromFile(file) \in DOMAIN OWNERS THEN OWNERS[eventNameFromFile(file)] ELSE << >>

\* --- contents of a changed file at a revision
RunSchemas ==
    {Node(TypeOther, ArrayOf(<<StrV(sA)>>),
          ObjectOf(<< <<sA, Leaf(<<TypeString(sNumber), NotAnArray>>)>> >>), NotAnArray),
     Node(TypeOther, NotAnArray,
          ObjectOf(<< <<sA, Leaf(<<TypeString(sString), NotAnArray>>)>> >>), NotAnArray),
     Node(TypeOther, ArrayOf(<<StrV(sA)>>),
          ObjectOf(<< <<sA, Leaf(<<TypeString(sNumber), NotAnArray>>)>>,
                      <<sB, Leaf(<<TypeString(sNumber), NotAnArray>>)>> >>), NotAnArray)}

RunContents == {Missing, BadText} \cup {TextOf(v) : v \in RunSchemas}

----------------------------------------------------------------------------
(* The script *)

NoFinal == [decision |-> "none", blocks |-> 0, warns |-> 0, passes |-> 0]
NotExited == -1

Init ==
    /\ pc = "loadConfig"
    /\ POLICY_DEFAULT = DEFAULT_POLICY
    /\ POLICY_OVERRIDES_BY_OWNER = << >>
    /\ OWNERS = << >>
    /\ changed = << >>
    /\ idx = 0
    /\ contents = << >>
    /\ reports = << >>
    /\ anyBlock = FALSE
    /\ final = NoFinal
    /\ exitCode = NotExited
    /\ arg = << >>
    /\ ret = << >>

\* try { read and parse eventdiff.config.json } catch { ignore }
LoadConfig(Docs) ==
    /\ pc = "loadConfig"
    /\ \E cfg \in Docs :
          /\ POLICY_DEFAULT' = LoadedDefault(cfg)
          /\ POLICY_OVERRIDES_BY_OWNER' = LoadedOverrides(cfg)
    /\ pc' = "loadOwners"
    /\ UNCHANGED <<OWNERS, changed, idx, contents, reports, anyBlock, final, exitCode, arg, ret>>

\* try { read and parse owners.json } catch { ignore }
LoadOwners(Maps) ==
    /\ pc = "loadOwners"
    /\ \E o \in Maps : OWNERS' = o
    /\ pc' = "ready"
    /\ UNCHANGED <<POLICY_DEFAULT, POLICY_OVERRIDES_BY_OWNER, changed, idx, contents,
                   reports, anyBlock, final, exitCode, arg, ret>>

\* if (!base || !head) { usage; exit(2) }
UsageError ==
    /\ pc = "ready"
    /\ exitCode' = 2
    /\ pc' = "exited"
    /\ UNCHANGED <<POLICY_DEFAULT, POLICY_OVERRIDES_BY_OWNER, OWNERS, changed, idx, contents,
                   reports, anyBlock, final, arg, ret>>

\* changed = git diff --name-only, empty: print the empty report and exit(0)
ListChangedEmpty ==
    /\ pc = "ready"
    /\ changed' = << >>
    /\ final' = [decision |-> "PASS", blocks |-> 0, warns |-> 0, passes |-> 0]
    /\ exitCode' = 0
    /\ pc' = "exited"
    /\ UNCHANGED <<POLICY_DEFAULT, POLICY_OVERRIDES_BY_OWNER, OWNERS, idx, contents, reports,
                   anyBlock, arg, ret>>

\* changed = git diff --name-only, not empty: enter the loop
ListChanged ==
    /\ pc = "ready"
    /\ \E list \in SeqsUpTo(Files, MaxFiles) :
          /\ Len(list) >= 1
          /\ \A i, j \in 1..Len(list) : i # j => list[i] # list[j]
          /\ changed' = list
    /\ idx' = 1
    /\ reports' = << >>
    /\ anyBlock' = FALSE
    /\ pc' = "loop"
    /\ UNCHANGED <<POLICY_DEFAULT, POLICY_OVERRIDES_BY_OWNER, OWNERS, contents, final,
                   exitCode, arg, ret>>

Retrieved(old, new) == [oldOk |-> old.ok, newOk |-> new.ok,
                        oldValid |-> old.valid, newValid |-> new.valid]

Report(file, summary, changes) == [file |-> file, summary |-> summary, changes |-> changes]

\* for (const path of changed): after the report of one file is pushed, by
\* `continue` or at the end of the body, the loop goes on to the next file
NextIndex_BreakOnBlock(i, report) ==
    IF report.summary.blocks > 0 THEN Len(changed) + 1 ELSE i + 1

NextIndex(i, report) == i + 1

Last(seq) == seq[Len(seq)]

LoopVarsUnchanged ==
    UNCHANGED <<POLICY_DEFAULT, POLICY_OVERRIDES_BY_OWNER, OWNERS, changed, final,
                exitCode, arg, ret>>

\* one iteration: !oldFile.ok && newFile.ok
FileAdded ==
    /\ pc = "loop" /\ idx <= Len(changed)
    /\ \E old, new \in RunContents :
          /\ ~old.ok /\ new.ok
          /\ contents' = Append(contents, Retrieved(old, new))
          /\ reports' = Append(reports,
                Report(changed[idx],
                       [decision |-> "PASS", blocks |-> 0, warns |-> 0, passes |-> 1],
                       <<Change(sevForOwner("FILE_ADDED", OwnersOf(changed[idx])),
                                "FILE_ADDED", changed[idx])>>))
    /\ idx' = NextIndex(idx, Last(reports'))
    /\ UNCHANGED <<pc, anyBlock>>
    /\ LoopVarsUnchanged

\* one iteration: oldFile.ok && !newFile.ok
FileRemoved ==
    /\ pc = "loop" /\ idx <= Len(changed)
    /\ \E old, new \in RunContents :
          /\ ~(~old.ok /\ new.ok)
          /\ old.ok /\ ~new.ok
          /\ contents' = Append(contents, Retrieved(old, new))
          /\ reports' = Append(reports,
                Report(changed[idx],
                       [decision |-> "FAIL", blocks |-> 1, warns |-> 0, passes |-> 0],
                       <<Change(sevForOwner("FILE_REMOVED", OwnersOf(changed[idx])),
                                "FILE_REMOVED", changed[idx])>>))
    /\ anyBlock' = TRUE
    /\ idx' = NextIndex(idx, Last(reports'))
    /\ UNCHANGED pc
    /\ LoopVarsUnchanged

\* one iteration: !oldParsed.ok || !newParsed.ok
InvalidJson ==
    /\ pc = "loop" /\ idx <= Len(changed)
    /\ \E old, new \in RunContents :
          /\ ~(~old.ok /\ new.ok)
          /\ ~(old.ok /\ ~new.ok)
          /\ ~safeJsonParse(old).ok \/ ~safeJsonParse(new).ok
          /\ contents' = Append(contents, Retrieved(old, new))
          /\ reports' = Append(reports,
                Report(changed[idx],
                       [decision |-> "FAIL", blocks |-> 1, warns |-> 0, passes |-> 0],
                       <<Change(sevForOwner("INVALID_JSON", OwnersOf(changed[idx])),
                                "INVALID_JSON", changed[idx])>>))
    /\ anyBlock' = TRUE
    /\ idx' = NextIndex(idx, Last(reports'))
    /\ UNCHANGED pc
    /\ LoopVarsUnchanged

\* one iteration: r = diff(oldParsed.value, newParsed.value, ownerTeams)
DiffFile ==
    /\ pc = "loop" /\ idx <= Len(changed)
    /\ \E old, new \in RunContents :
          /\ ~(~old.ok /\ new.ok)
          /\ ~(old.ok /\ ~new.ok)
          /\ safeJsonParse(old).ok /\ safeJsonParse(new).ok
          /\ LET r == diff(safeJsonParse(old).value, safeJsonParse(new).value,
                           OwnersOf(changed[idx]))
             IN  /\ reports' = Append(reports, Report(changed[idx], r.summary, r.changes))
                 /\ anyBlock' = (anyBlock \/ r.summary.blocks > 0)
          /\ contents' = Append(contents, Retrieved(old, new))
    /\ idx' = NextIndex(idx, Last(reports'))
    /\ UNCHANGED pc
    /\ LoopVarsUnchanged

RECURSIVE SumOver(_, _)
SumOver(rs, field) ==
    IF rs = << >> THEN 0 ELSE rs[1].summary[field] + SumOver(Tail(rs), field)

\* after the loop: the final summary and process.exit(anyBlock ? 1 : 0)
Finish ==
    /\ pc = "loop" /\ idx > Len(changed)
    /\ final' = [decision |-> IF anyBlock THEN "FAIL" ELSE "PASS",
                 blocks |-> SumOver(reports, "blocks"),
                 warns  |-> SumOver(reports, "warns"),
                 passes |-> SumOver(reports, "passes")]
    /\ exitCode' = IF anyBlock THEN 1 ELSE 0
    /\ pc' = "exited"
    /\ UNCHANGED <<POLICY_DEFAULT, POLICY_OVERRIDES_BY_OWNER, OWNERS, changed, idx, contents,
                   reports, anyBlock, arg, ret>>

Next ==
    \/ LoadConfig(RunConfigs)
    \/ LoadOwners(RunOwnerMaps)
    \/ UsageError
    \/ ListChangedEmpty
    \/ ListChanged
    \/ FileAdded
    \/ FileRemoved
    \/ InvalidJson
    \/ DiffFile
    \/ Finish

Spec == Init /\ [][Next]_vars

----------------------------------------------------------------------------
(* Functions applied to drawn inputs, after the configuration is loaded *)

CallVarsUnchanged ==
    UNCHANGED <<POLICY_DEFAULT, POLICY_OVERRIDES_BY_OWNER, OWNERS, changed, idx, contents,
                reports, anyBlock, final, exitCode>>

CallSevForOwner ==
    /\ pc = "ready"
    /\ \E key \in PolicyKeys :
          /\ arg' = [key |-> key, ownerTeams |-> OwnersOf(1)]
          /\ ret' = sevForOwner(key, OwnersOf(1))
    /\ pc' = "returned"
    /\ CallVarsUnchanged

NextPolicy ==
    \/ LoadConfig(PolicyConfigs)
    \/ LoadOwners(PolicyOwnerMaps)
    \/ CallSevForOwner

SpecPolicy == Init /\ [][NextPolicy]_vars

CallFlatten ==
    /\ pc = "ready"
    /\ \E schema \in FlattenInputs :
          /\ arg' = schema
          /\ ret' = flatten(schema)
    /\ pc' = "returned"
    /\ CallVarsUnchanged

NextFlatten ==
    \/ LoadConfig({NoConfig})
    \/ LoadOwners({<< >>})
    \/ CallFlatten

SpecFlatten == Init /\ [][NextFlatten]_vars

CallDiff ==
    /\ pc = "ready"
    /\ \E oldSchema, newSchema \in DiffSchemas :
          /\ arg' = [oldSchema |-> oldSchema, newSchema |-> newSchema,
                     ownerTeams |-> OwnersOf(1)]
          /\ ret' = diff(oldSchema, newSchema, OwnersOf(1))
    /\ pc' = "returned"
    /\ CallVarsUnchanged

NextDiff ==
    \/ LoadConfig(DiffConfigs)
    \/ LoadOwners({<< >>, 1 :> <<"t1">>})
    \/ CallDiff

SpecDiff == Init /\ [][NextDiff]_vars

\* --- inputs of enumDiff: an absent list, or a list of numbers or of strings
EnumNumbers == {NumV(1), NumV(2), NumV(10)}
EnumStrings == {StrV(sA), StrV(sB)}

EnumInputs ==
    {NotAnArray} \cup {ArrayOf(l) : l \in SeqsUpTo(EnumNumbers, MaxEnumLen)}
                 \cup {ArrayOf(l) : l \in SeqsUpTo(EnumStrings, MaxEnumLen)}

CallEnumDiff ==
    /\ pc = "ready"
    /\ \E oldEnum, newEnum \in EnumInputs :
          /\ arg' = [oldEnum |-> oldEnum, newEnum |-> newEnum]
          /\ ret' = enumDiff(oldEnum, newEnum)
    /\ pc' = "returned"
    /\ CallVarsUnchanged

NextEnum ==
    \/ LoadConfig({NoConfig})
    \/ LoadOwners({<< >>})
    \/ CallEnumDiff

SpecEnum == Init /\ [][NextEnum]_vars

----------------------------------------------------------------------------
(* Properties *)

HasBlock(changes) == \E i \in 1..Len(changes) : changes[i].severity = "block"

\* C1: once the run has processed every file, the decision is FAIL and the
\* exit code 1 exactly when some change record of some file report has
\* severity block; otherwise the decision is PASS and the exit code 0.
C1_FailIffSomeBlockRecord ==
    (pc = "exited" /\ exitCode # 2) =>
        LET someBlock == \E i \in 1..Len(reports) : HasBlock(reports[i].changes)
        IN  IF someBlock
            THEN final.decision = "FAIL" /\ exitCode = 1
            ELSE final.decision = "PASS" /\ exitCode = 0

\* C2: the summary of every file report counts its change records by
\* severity, and its decision is FAIL exactly when blocks > 0.
C2_SummaryCountsChanges ==
    \A i \in 1..Len(reports) :
        LET r == reports[i]
        IN  /\ r.summary.blocks = CountSeverity(r.changes, "block")
            /\ r.summary.warns  = CountSeverity(r.changes, "warn")
            /\ r.summary.passes = CountSeverity(r.changes, "pass")
            /\ (r.summary.decision = "FAIL") <=> (r.summary.blocks > 0)

\* the order pass < warn < block, written out
SevLeq(a, b) ==
    <<a, b>> \in {<<"pass", "pass">>, <<"pass", "warn">>, <<"pass", "block">>,
                  <<"warn", "warn">>, <<"warn", "block">>, <<"block", "block">>}

\* what the loaded policy gives a rule key: its default, and the overrides the
\* listed teams define for it
DefaultSeverity(key) ==
    IF key \in DOMAIN POLICY_DEFAULT THEN POLICY_DEFAULT[key] ELSE "warn"

OverridesDefined(key, teams) ==
    {POLICY_OVERRIDES_BY_OWNER[t].map[key] :
        t \in {u \in Range(teams) :
                  /\ u \in DOMAIN POLICY_OVERRIDES_BY_OWNER
                  /\ POLICY_OVERRIDES_BY_OWNER[u].isObject
                  /\ key \in DOMAIN POLICY_OVERRIDES_BY_OWNER[u].map}}

Candidates(key, teams) == {DefaultSeverity(key)} \cup OverridesDefined(key, teams)

Reorderings(teams) ==
    {[i \in 1..Len(teams) |-> teams[p[i]]] : p \in Permutations(1..Len(teams))}

\* C3: where the default and the overrides at hand are severities, the result
\* of sevForOwner is their maximum under pass < warn < block: it is one of
\* them, none of them is stricter, so it is never below the default, and every
\* reordering of the team list gives the same result.
C3_StrictestWins ==
    (pc = "returned" /\ Candidates(arg.key, arg.ownerTeams) \subseteq Sev) =>
        /\ ret \in Candidates(arg.key, arg.ownerTeams)
        /\ \A c \in Candidates(arg.key, arg.ownerTeams) : SevLeq(c, ret)
        /\ SevLeq(DefaultSeverity(arg.key), ret)
        /\ \A teams \in Reorderings(arg.ownerTeams) : sevForOwner(arg.key, teams) = ret

\* two teams with different overrides, the stricter one listed first, and the
\* result above the default
C3_Witness ==
    /\ pc = "returned"
    /\ Candidates(arg.key, arg.ownerTeams) \subseteq Sev
    /\ Len(arg.ownerTeams) = 2
    /\ Cardinality(OverridesDefined(arg.key, arg.ownerTeams)) = 2
    /\ OverridesDefined(arg.key, <<arg.ownerTeams[1]>>) = {"block"}
    /\ DefaultSeverity(arg.key) = "pass"
    /\ ret = "block"

\* C4: whatever the configuration file says, sevForOwner returns pass, warn
\* or block.
C4_ResultIsSeverity ==
    pc = "returned" => ret \in Sev

\* the change records of a diff result that carry a path
RecordsAt(changes, p) == SelectSeq(changes, LAMBDA c : c.path = p)

\* C5: the change list of a diff is in ascending lexicographic order of the
\* field paths: no record is followed by a record with a smaller path.
C5_ChangesSortedByPath ==
    pc = "returned" =>
        \A i, j \in 1..Len(ret.changes) :
            i < j => ~StrLess(ret.changes[j].path, ret.changes[i].path)

\* old has only b, new has a and a.b instead: three records on three paths
C5_Witness ==
    /\ pc = "returned"
    /\ DOMAIN flatten(arg.oldSchema) = {sB}
    /\ DOMAIN flatten(arg.newSchema) = {sA, sA \o Dot \o sB}
    /\ Len(ret.changes) = 3

\* C6: a schema diffed against itself gives no change, zero counts and PASS,
\* under every policy and owner list.
C6_SelfDiffIsEmpty ==
    (pc = "returned" /\ arg.oldSchema = arg.newSchema) =>
        /\ ret.changes = << >>
        /\ ret.summary = [decision |-> "PASS", blocks |-> 0, warns |-> 0, passes |-> 0]

\* a schema with a required field, a nested field and enums, diffed against
\* itself under a policy with overrides that apply
C6_Witness ==
    /\ pc = "returned"
    /\ arg.oldSchema = arg.newSchema
    /\ arg.ownerTeams # << >>
    /\ POLICY_OVERRIDES_BY_OWNER # << >>
    /\ \E p \in DOMAIN flatten(arg.oldSchema) : flatten(arg.oldSchema)[p].required
    /\ \E p \in DOMAIN flatten(arg.oldSchema) : flatten(arg.oldSchema)[p].enum.isArray
    /\ Cardinality(DOMAIN flatten(arg.oldSchema)) = 3

\* C7: a path present in only one snapshot gets exactly one record:
\* FIELD_REMOVED with the severity of FIELD_REMOVED_REQUIRED or
\* FIELD_REMOVED_OPTIONAL, by the old descriptor's required flag, when only in
\* old; FIELD_ADDED with that of FIELD_ADDED_REQUIRED or FIELD_ADDED_OPTIONAL,
\* by the new descriptor's required flag, when only in new.
C7_OneRecordForOneSidedPath ==
    pc = "returned" =>
        LET A == flatten(arg.oldSchema)
            B == flatten(arg.newSchema)
        IN  /\ \A p \in (DOMAIN A) \ (DOMAIN B) :
                  RecordsAt(ret.changes, p) =
                      <<Change(sevForOwner(IF A[p].required THEN "FIELD_REMOVED_REQUIRED"
                                           ELSE "FIELD_REMOVED_OPTIONAL", arg.ownerTeams),
                               "FIELD_REMOVED", p)>>
            /\ \A p \in (DOMAIN B) \ (DOMAIN A) :
                  RecordsAt(ret.changes, p) =
                      <<Change(sevForOwner(IF B[p].required THEN "FIELD_ADDED_REQUIRED"
                                           ELSE "FIELD_ADDED_OPTIONAL", arg.ownerTeams),
                               "FIELD_ADDED", p)>>

\* a required field removed, an optional one removed and a required one added
C7_Witness ==
    /\ pc = "returned"
    /\ LET A == flatten(arg.oldSchema)
           B == flatten(arg.newSchema)
       IN  /\ \E p \in (DOMAIN A) \ (DOMAIN B) : A[p].required
           /\ \E p \in (DOMAIN A) \ (DOMAIN B) : ~A[p].required
           /\ \E p \in (DOMAIN B) \ (DOMAIN A) : B[p].required

BothSidedKinds ==
    {"REQUIRED_BECOMES_REQUIRED", "REQUIRED_BECOMES_OPTIONAL", "TYPE_CHANGED",
     "ENUM_VALUE_REMOVED", "ENUM_VALUE_ADDED"}

EnumValues(d) == IF d.enum.isArray THEN Range(d.enum.values) ELSE {}

\* the condition under which a kind is due for the descriptors a (old), b (new)
KindDue(kind, a, b) ==
    CASE kind = "REQUIRED_BECOMES_REQUIRED" -> ~a.required /\ b.required
      [] kind = "REQUIRED_BECOMES_OPTIONAL" -> a.required /\ ~b.required
      [] kind = "TYPE_CHANGED"              -> a.type # b.type \/ a.nullable # b.nullable
      [] kind = "ENUM_VALUE_REMOVED"        -> EnumValues(a) \ EnumValues(b) # {}
      [] kind = "ENUM_VALUE_ADDED"          -> EnumValues(b) \ EnumValues(a) # {}

RECURSIVE FieldsOf(_, _)
RECURSIVE FieldsOfEntries(_, _, _)

FieldsOf(node, path) ==
    IF node.isNull \/ ~node.properties.isObject THEN << >>
    ELSE FieldsOfEntries(node, node.properties.entries, path)

FieldsOfEntries(parent, entries, path) ==
    IF entries = << >> THEN << >>
    ELSE LET p == ChildPath(path, Head(entries)[1])
         IN  <<[path |-> p, key |-> Head(entries)[1], parent |-> parent,
                node |-> Head(entries)[2]]>>
             \o FieldsOf(Head(entries)[2], p)
             \o FieldsOfEntries(parent, Tail(entries), path)

\* the field's key is a string of its immediate parent's required array
ListedByParent(f) ==
    f.parent.required.isArray /\ StrV(f.key) \in Range(f.parent.required.values)

\* the fields of the schema that have a node and a path
DescribedFields(schema) ==
    SelectSeq(FieldsOf(schema, << >>), LAMBDA f : ~f.node.isNull /\ f.path # << >>)

\* the field a descriptor at path p is recorded for: the last one with that path
FieldAt(schema, p) ==
    LET fs == DescribedFields(schema)
        last == CHOOSE i \in 1..Len(fs) :
                    /\ fs[i].path = p
                    /\ \A j \in 1..Len(fs) : fs[j].path = p => j <= i
    IN  fs[last]

\* C9: flatten records no descriptor for the root, records one for every
\* path of a field, and the descriptor of a field is required exactly when its
\* immediate parent's required array lists its key.
C9_RequiredFromParentOnly ==
    pc = "returned" =>
        /\ << >> \notin DOMAIN ret
        /\ DOMAIN ret = {f.path : f \in Range(DescribedFields(arg))}
        /\ \A p \in DOMAIN ret : ret[p].required = ListedByParent(FieldAt(arg, p))

\* a.b is not required by a, though the root's required array names both b
\* and a.b; a is required by the root
C9_Witness ==
    /\ pc = "returned"
    /\ ~arg.isNull
    /\ arg.required = ArrayOf(<<StrV(sB), StrV(sAdotB)>>)
    /\ Len(DescribedFields(arg)) = 3
    /\ \E i \in 1..3 :
          LET f == DescribedFields(arg)[i]
          IN  /\ f.path = sAdotB /\ f.key = sB
              /\ ~ListedByParent(f)
              /\ ~ret[f.path].required
    /\ \E p \in DOMAIN ret : ret[p].required

\* the declaration names the null marker: as the single type name or in the list
DeclaresNull(t) ==
    \/ t.kind = "array" /\ sNull \in Range(t.names)
    \/ t.kind = "string" /\ t.name = sNull

\* C10: the nullable flag of a flattened descriptor is true exactly when the
\* field's type declaration, a single name or a list, includes the null marker.
C10_NullableIffNullDeclared ==
    pc = "returned" =>
        \A p \in DOMAIN ret : ret[p].nullable <=> DeclaresNull(FieldAt(arg, p).node.type)

\* the natural order of two values of one kind: numeric for numbers, by code
\* units for strings
NaturalLess(u, v) ==
    IF u.t = "num" /\ v.t = "num" THEN u.n < v.n
    ELSE IF u.t = "str" /\ v.t = "str" THEN StrLess(u.s, v.s)
    ELSE FALSE

\* the values of a list, an absent list counting as empty
ValuesOf(enum) == IF enum.isArray THEN Range(enum.values) ELSE {}

\* a list without duplicates, of exactly the values of S, ascending
IsSortedListOf(list, S) ==
    /\ Range(list) = S
    /\ Len(list) = Cardinality(S)
    /\ \A i, j \in 1..Len(list) : i < j => NaturalLess(list[i], list[j])

\* C11: removed is the duplicate-free list of the values of old that are not
\* in new, added that of the values of new that are not in old, each in
\* ascending natural order (numeric order for numbers).
C11_EnumDiffSortedDifference ==
    pc = "returned" =>
        /\ IsSortedListOf(ret.removed, ValuesOf(arg.oldEnum) \ ValuesOf(arg.newEnum))
        /\ IsSortedListOf(ret.added, ValuesOf(arg.newEnum) \ ValuesOf(arg.oldEnum))

\* the run went through the loop and ended
LoopExited == pc = "exited" /\ exitCode \in {0, 1} /\ changed # << >>

\* the run found no changed file and ended
EmptyExited == pc = "exited" /\ exitCode \in {0, 1} /\ changed = << >>

\* C12: the report list has exactly one report per listed file, in list
\* order; the aggregate decision exists only once the last file has its
\* report, whatever blocks earlier files had; with no changed file the report
\* list is empty, the decision PASS with zero counts, and nothing was retrieved.
C12_OneReportPerFileInOrder ==
    /\ pc = "loop" =>
          /\ Len(reports) = idx - 1
          /\ Len(reports) <= Len(changed)
          /\ \A i \in 1..Len(reports) : reports[i].file = changed[i]
    /\ final # NoFinal => Len(reports) = Len(changed)
    /\ LoopExited =>
          /\ Len(reports) = Len(changed)
          /\ Len(contents) = Len(changed)
          /\ \A i \in 1..Len(changed) : reports[i].file = changed[i]
          /\ final # NoFinal
    /\ EmptyExited =>
          /\ reports = << >>
          /\ contents = << >>
          /\ final = [decision |-> "PASS", blocks |-> 0, warns |-> 0, passes |-> 0]
          /\ exitCode = 0

\* a finished run over two files or more, listed out of name order, whose first
\* file blocked and whose later files still have their reports
C12_Witness ==
    /\ LoopExited
    /\ Len(changed) >= 2
    /\ changed[1] > changed[2]
    /\ reports[1].summary.blocks > 0
    /\ Len(reports) = Len(changed)
    /\ reports[Len(reports)].file = changed[Len(changed)]

\* file i was not retrieved at one revision or both, or its text did not parse
Unusable(i) ==
    \/ ~contents[i].oldOk
    \/ ~contents[i].newOk
    \/ ~contents[i].oldValid
    \/ ~contents[i].newValid

FileOutcomeKinds == {"FILE_ADDED", "FILE_REMOVED", "INVALID_JSON"}

\* C13: the report of every file that could not be retrieved at base, at head
\* or at both, or whose content did not parse, has exactly one change record,
\* of kind FILE_ADDED, FILE_REMOVED or INVALID_JSON; it is never the result of
\* the field-level diff and never a report without changes.
C13_UnusableFileHasOneOutcomeRecord ==
    \A i \in 1..Len(reports) :
        Unusable(i) =>
            /\ Len(reports[i].changes) = 1
            /\ reports[i].changes[1].kind \in FileOutcomeKinds

====
